---- MODULE Spec2Model ----
(***************************************************************************)
(* Model of the game progression state machine of Detective Logic          *)
(* (src/App.tsx, with the types of src/unnamed/part_000).                   *)
(*                                                                         *)
(* The variables are the useState cells of the App component plus the      *)
(* asynchronous calls in flight (generateMystery, getHint, addXp, the      *)
(* level-up timeout).  Every handler of App.tsx is one action; an async    *)
(* handler is split at its await into the synchronous prefix and one       *)
(* action per way the awaited promise settles.  A handler is enabled when  *)
(* App.tsx renders the element that carries it and does not disable it.    *)
(*                                                                         *)
(* The Modal and Celebration components are not part of App.tsx, so        *)
(* whether an open overlay shields the elements rendered beneath it is     *)
(* not decided by the source.  overlaysShield holds the answer; Init       *)
(* leaves it open.  With overlaysShield false a handler needs only the     *)
(* conditions App.tsx itself imposes; with overlaysShield true a handler   *)
(* of the page also needs every overlay closed, and a handler inside an    *)
(* overlay needs that overlay to be the only one open.                     *)
(***************************************************************************)
EXTENDS Integers, Sequences, FiniteSets, TLC

(* ---------------------------- bounds ----------------------------------- *)
MaxClues       == 2   \* longest clue list a generated case has
MaxXpCalls     == 1   \* addXp calls issued in one behaviour
MaxPendingHint == 1   \* getHint calls in flight at once
MaxLogouts     == 1   \* logouts in one behaviour
MaxRepeatXpCalls == 2 \* addXp calls issued in one behaviour without logout

(* ---------------------------- types ------------------------------------ *)
Difficulty == {"Easy", "Medium", "Hard"}

ClueType == {"Observation", "Testimony", "Physical Object", "Context"}

GameState == {"Auth", "Idle", "Loading", "Playing", "Solving", "Success",
              "Failure", "Error"}

OptionIds == {"A", "B"}

\* where a startGame call comes from: a difficulty button of the dashboard or
\* the Next Case button (recorded with the call; startGame does not read it)
Origin == {"dashboard", "nextCase"}

\* null of the nullable cells
NoCase   == [none |-> TRUE]
NoUser   == [anonymous |-> TRUE]
NoClue   == 0
NoOption == ""
NoText   == ""

HintText     == "hint"
HintFallback == "The connection is fuzzy. I can't get a hint right now."
ErrMissingKey == "Missing API Key. Please provide a valid API Key in the environment."
ErrGeneration == "Failed to contact headquarters. The AI service might be busy or configured incorrectly."

\* the type of the generated clue at position i: the positions cycle through
\* the four types, starting with one startGame may lock
TypeAt(i) ==
  <<"Testimony", "Observation", "Physical Object", "Context">>[((i - 1) % 4) + 1]

\* a clue list: 1 to MaxClues clues, clue i has id i
ClueLists == { [i \in 1..n |-> [id |-> i, type |-> TypeAt(i)]] : n \in 1..MaxClues }

MysteryCase ==
  [difficulty : Difficulty, clues : ClueLists, options : {OptionIds},
   correctOptionId : OptionIds]

(* ---------------------------- state ------------------------------------ *)
VARIABLES
  user, gameState, mystery, revealedClues, lockedClues, activePuzzleClueId,
  isCelebrating, selectedDifficulty, hint, isHintLoading, selectedOption,
  error, showLevelUp, xpGained,
  overlaysShield,   \* whether an open overlay shields what lies beneath it
  account,          \* total XP the progression store holds for the player
  genPending,       \* generateMystery calls in flight: bag of <<difficulty, origin>>
  hintPending,      \* number of getHint calls in flight
  xpPending,        \* addXp calls in flight: bag of amounts
  levelUpTimers,    \* number of armed setTimeout(setShowLevelUp) timers
  xpIssued,         \* history: number of addXp calls issued
  logouts           \* history: number of logouts

vars == <<user, gameState, mystery, revealedClues, lockedClues,
          activePuzzleClueId, isCelebrating, selectedDifficulty, hint,
          isHintLoading, selectedOption, error, showLevelUp, xpGained,
          overlaysShield, account, genPending, hintPending, xpPending,
          levelUpTimers, xpIssued, logouts>>

gameVars  == <<mystery, revealedClues, lockedClues, activePuzzleClueId,
               selectedDifficulty, selectedOption>>
hintVars  == <<hint, isHintLoading, hintPending>>
xpVars    == <<user, account, xpPending, levelUpTimers, xpIssued, xpGained,
               showLevelUp>>
envVars   == <<overlaysShield, logouts>>

(* ---------------------------- helpers ---------------------------------- *)
Range(s) == { s[i] : i \in 1..Len(s) }

includes(arr, x) == \E i \in 1..Len(arr) : arr[i] = x

RECURSIVE filterOut(_, _)
\* prev.filter(id => id !== x)
filterOut(arr, x) ==
  IF arr = <<>> THEN <<>>
  ELSE IF Head(arr) = x THEN filterOut(Tail(arr), x)
       ELSE <<Head(arr)>> \o filterOut(Tail(arr), x)

BagAdd(b, x)    == [b EXCEPT ![x] = @ + 1]
BagRemove(b, x) == [b EXCEPT ![x] = @ - 1]
BagSize(b)      == LET RECURSIVE Sum(_)
                       Sum(S) == IF S = {} THEN 0
                                 ELSE LET x == CHOOSE y \in S : TRUE
                                      IN b[x] + Sum(S \ {x})
                   IN Sum(DOMAIN b)

clueIds(c) == { c.clues[i].id : i \in 1..Len(c.clues) }

clueType(c, id) == (CHOOSE cl \in Range(c.clues) : cl.id = id).type

(* ---------------------------- pure logic ------------------------------- *)
\* the values of the local xp of submitSolution: its initial 0 and the three
\* the switch assigns
XpAmounts == {0, 50, 100, 200}

\* a switch that lost the break of its first case
rewardForFallsThrough(d) ==
  CASE d = "Easy"   -> 100
    [] d = "Medium" -> 100
    [] d = "Hard"   -> 200
    [] OTHER        -> 0

\* the switch of submitSolution
rewardFor(d) ==
  CASE d = "Easy"   -> 50
    [] d = "Medium" -> 100
    [] d = "Hard"   -> 200
    [] OTHER        -> 0

\* a lock test that also takes observations
isLockableOrObservation(t) ==
  t = "Physical Object" \/ t = "Testimony" \/ t = "Observation"

isLockable(t) == t = "Physical Object" \/ t = "Testimony"

lockableIds(c) == { id \in clueIds(c) : isLockable(clueType(c, id)) }

\* Math.random(): uniform on [0, 1), here five cells of equal probability,
\* each named by its midpoint in percent
Rolls == {10, 30, 50, 70, 90}

\* a chance that forgets the difficulty
chanceFlat(d) == 40

\* chance in percent
chance(d) == IF d = "Hard" THEN 60 ELSE 40

\* the clues for which Math.random() < chance holds, given one value of
\* Math.random() per lockable clue
drawn(rolls, d) == { id \in DOMAIN rolls : rolls[id] < chance(d) }

\* the forEach of startGame; draws is the set of clues for which
\* Math.random() < chance came out true
computeLocks(clues, draws) ==
  LET pick(cl) == isLockable(cl.type) /\ cl.id \in draws
      ids      == [i \in 1..Len(clues) |-> clues[i].id]
      keep(id) == \E i \in 1..Len(clues) : clues[i].id = id /\ pick(clues[i])
  IN SelectSeq(ids, keep)

\* authService.addXp: the store adds the amount and returns the new profile
addXp(acc, xp) == acc + xp

profile(acc) == [totalXp |-> acc]

(* ---------------------------- what is rendered ------------------------- *)
AuthScreen  == gameState = "Auth"
ErrorScreen == /\ ~AuthScreen
               /\ error # NoText /\ mystery = NoCase /\ gameState # "Idle"
MainView    == ~AuthScreen /\ ~ErrorScreen

\* the overlays App.tsx has open: the five modals and the celebration
Overlays ==
  {o \in {"puzzle", "solving", "success", "failure", "levelUp", "celebration"} :
     \/ o = "puzzle"      /\ activePuzzleClueId # NoClue
     \/ o = "solving"     /\ gameState = "Solving"
     \/ o = "success"     /\ gameState = "Success"
     \/ o = "failure"     /\ gameState = "Failure"
     \/ o = "levelUp"     /\ showLevelUp
     \/ o = "celebration" /\ isCelebrating}

\* an element of the page (header, dashboard, board) can be clicked
OnPage == MainView /\ (overlaysShield => Overlays = {})

\* an element inside overlay o can be clicked
InOverlay(o) == MainView /\ o \in Overlays /\ (overlaysShield => Overlays = {o})

\* the board: the section of the page that shows the case
Board == /\ OnPage
         /\ gameState \in {"Playing", "Solving", "Success", "Failure"}
         /\ mystery # NoCase

(* ---------------------------- initial state ---------------------------- *)
\* the state after the first render and the initial auth effect
Init ==
  /\ overlaysShield \in BOOLEAN
  /\ account = 0
  /\ \E loggedIn \in BOOLEAN :
       IF loggedIn THEN user = profile(account) /\ gameState = "Idle"
                   ELSE user = NoUser /\ gameState = "Auth"
  /\ \E hasApiKey \in BOOLEAN :
       error = IF hasApiKey THEN NoText ELSE ErrMissingKey
  /\ mystery = NoCase
  /\ revealedClues = <<>>
  /\ lockedClues = <<>>
  /\ activePuzzleClueId = NoClue
  /\ isCelebrating = FALSE
  /\ selectedDifficulty = "Easy"
  /\ hint = NoText
  /\ isHintLoading = FALSE
  /\ selectedOption = NoOption
  /\ showLevelUp = FALSE
  /\ xpGained = 0
  /\ genPending = [r \in Difficulty \X Origin |-> 0]
  /\ hintPending = 0
  /\ xpPending = [xp \in XpAmounts |-> 0]
  /\ levelUpTimers = 0
  /\ xpIssued = 0
  /\ logouts = 0

(* ---------------------------- authentication --------------------------- *)
handleLogin ==
  /\ AuthScreen
  /\ user' = profile(account)
  /\ gameState' = "Idle"
  /\ UNCHANGED <<gameVars, hintVars, isCelebrating, error, showLevelUp,
                 xpGained, account, genPending, xpPending, levelUpTimers,
                 xpIssued, envVars>>

handleLogout ==
  /\ OnPage
  /\ logouts < MaxLogouts
  /\ logouts' = logouts + 1
  /\ user' = NoUser
  /\ gameState' = "Auth"
  /\ mystery' = NoCase
  /\ UNCHANGED <<revealedClues, lockedClues, activePuzzleClueId,
                 selectedDifficulty, selectedOption, hintVars, isCelebrating,
                 error, showLevelUp, xpGained, account, genPending, xpPending,
                 levelUpTimers, xpIssued, overlaysShield>>

(* ---------------------------- case generation -------------------------- *)
\* startGame up to the await
startGameCall(difficulty, origin) ==
  /\ gameState' = "Loading"
  /\ selectedDifficulty' = difficulty
  /\ revealedClues' = <<>>
  /\ lockedClues' = <<>>
  /\ hint' = NoText
  /\ selectedOption' = NoOption
  /\ error' = NoText
  /\ isCelebrating' = FALSE
  /\ genPending' = BagAdd(genPending, <<difficulty, origin>>)
  /\ UNCHANGED <<mystery, activePuzzleClueId, isHintLoading, hintPending,
                 xpVars, envVars>>

\* a difficulty button of the dashboard
startGame ==
  /\ OnPage /\ gameState = "Idle"
  /\ \E diff \in Difficulty : startGameCall(diff, "dashboard")

\* the Next Case button of the Success modal
nextCase ==
  /\ InOverlay("success")
  /\ startGameCall(selectedDifficulty, "nextCase")

\* the cases generateMystery may resolve with
generateMystery(difficulty) ==
  { c \in MysteryCase : c.difficulty = difficulty }

\* startGame after the await, try branch
startGameResolved ==
  \E difficulty \in Difficulty, origin \in Origin :
    /\ genPending[<<difficulty, origin>>] > 0
    /\ genPending' = BagRemove(genPending, <<difficulty, origin>>)
    /\ \E newCase \in generateMystery(difficulty) :
       \E draws \in { drawn(rolls, difficulty) :
                        rolls \in [lockableIds(newCase) -> Rolls] } :
         /\ lockedClues' = computeLocks(newCase.clues, draws)
         /\ mystery' = newCase
         /\ gameState' = "Playing"
    /\ UNCHANGED <<revealedClues, activePuzzleClueId, selectedDifficulty,
                   selectedOption, hintVars, isCelebrating, error, xpVars,
                   envVars>>

\* a catch branch that raises the Error phase and drops the case
startGameRejectedRaisesError ==
  \E difficulty \in Difficulty, origin \in Origin :
    /\ genPending[<<difficulty, origin>>] > 0
    /\ genPending' = BagRemove(genPending, <<difficulty, origin>>)
    /\ error' = ErrGeneration
    /\ gameState' = "Error"
    /\ mystery' = NoCase
    /\ UNCHANGED <<revealedClues, lockedClues, activePuzzleClueId,
                   selectedDifficulty, selectedOption, hintVars, isCelebrating,
                   xpVars, envVars>>

\* startGame after the await, catch branch
startGameRejected ==
  \E difficulty \in Difficulty, origin \in Origin :
    /\ genPending[<<difficulty, origin>>] > 0
    /\ genPending' = BagRemove(genPending, <<difficulty, origin>>)
    /\ error' = ErrGeneration
    /\ gameState' = "Idle"
    /\ UNCHANGED <<gameVars, hintVars, isCelebrating, xpVars, envVars>>

(* ---------------------------- clues ------------------------------------ *)
\* the array revealClue leaves in revealedClues
revealClue(clueId) ==
  IF ~includes(revealedClues, clueId)
    THEN Append(revealedClues, clueId)
    ELSE revealedClues

\* a clue button of the board: rendered for every clue of the case, disabled
\* when the clue is revealed or the phase is not Playing
handleClueClick ==
  /\ Board /\ gameState = "Playing"
  /\ \E clueId \in clueIds(mystery) :
       /\ ~includes(revealedClues, clueId)
       /\ IF includes(lockedClues, clueId)
            THEN /\ activePuzzleClueId' = clueId
                 /\ UNCHANGED revealedClues
            ELSE /\ revealedClues' = revealClue(clueId)
                 /\ UNCHANGED activePuzzleClueId
  /\ UNCHANGED <<user, gameState, mystery, lockedClues, isCelebrating,
                 selectedDifficulty, selectedOption, hintVars, error,
                 showLevelUp, xpGained, account, genPending, xpPending,
                 levelUpTimers, xpIssued, envVars>>

\* onSuccess of the puzzle modal
handlePuzzleSuccess ==
  /\ InOverlay("puzzle")
  /\ lockedClues' = filterOut(lockedClues, activePuzzleClueId)
  /\ revealedClues' = revealClue(activePuzzleClueId)
  /\ activePuzzleClueId' = NoClue
  /\ UNCHANGED <<user, gameState, mystery, isCelebrating, selectedDifficulty,
                 selectedOption, hintVars, error, showLevelUp, xpGained,
                 account, genPending, xpPending, levelUpTimers, xpIssued,
                 envVars>>

\* onClose of the puzzle modal
closePuzzle ==
  /\ InOverlay("puzzle")
  /\ activePuzzleClueId' = NoClue
  /\ UNCHANGED <<user, gameState, mystery, revealedClues, lockedClues,
                 isCelebrating, selectedDifficulty, selectedOption, hintVars,
                 error, showLevelUp, xpGained, account, genPending, xpPending,
                 levelUpTimers, xpIssued, envVars>>

(* ---------------------------- hints ------------------------------------ *)
\* the hint button: rendered in Playing while there is no hint, disabled
\* while nothing is revealed; fetchHint up to the await
fetchHint ==
  /\ Board /\ gameState = "Playing"
  /\ hint = NoText
  /\ Len(revealedClues) # 0
  /\ hintPending < MaxPendingHint
  /\ isHintLoading' = TRUE
  /\ hintPending' = hintPending + 1
  /\ UNCHANGED <<user, gameState, gameVars, isCelebrating, hint, error,
                 showLevelUp, xpGained, account, genPending, xpPending,
                 levelUpTimers, xpIssued, envVars>>

\* fetchHint after the await, try branch and finally
fetchHintResolved ==
  /\ hintPending > 0
  /\ hintPending' = hintPending - 1
  /\ hint' = HintText
  /\ isHintLoading' = FALSE
  /\ UNCHANGED <<user, gameState, gameVars, isCelebrating, error, showLevelUp,
                 xpGained, account, genPending, xpPending, levelUpTimers,
                 xpIssued, envVars>>

\* a catch branch that reports the failure like a failed generation
fetchHintRejectedRaisesError ==
  /\ hintPending > 0
  /\ hintPending' = hintPending - 1
  /\ error' = ErrGeneration
  /\ gameState' = "Idle"
  /\ isHintLoading' = FALSE
  /\ UNCHANGED <<user, gameVars, isCelebrating, hint, showLevelUp, xpGained,
                 account, genPending, xpPending, levelUpTimers, xpIssued,
                 envVars>>

\* fetchHint after the await, catch branch and finally
fetchHintRejected ==
  /\ hintPending > 0
  /\ hintPending' = hintPending - 1
  /\ hint' = HintFallback
  /\ isHintLoading' = FALSE
  /\ UNCHANGED <<user, gameState, gameVars, isCelebrating, error, showLevelUp,
                 xpGained, account, genPending, xpPending, levelUpTimers,
                 xpIssued, envVars>>

(* ---------------------------- solving ---------------------------------- *)
\* a Solve Case button that is never disabled
solveCaseNeverDisabled ==
  /\ Board /\ gameState = "Playing"
  /\ gameState' = "Solving"
  /\ UNCHANGED <<user, gameVars, hintVars, isCelebrating, error, showLevelUp,
                 xpGained, account, genPending, xpPending, levelUpTimers,
                 xpIssued, envVars>>

\* the Solve Case button
solveCase ==
  /\ Board /\ gameState = "Playing"
  /\ ~(Len(revealedClues) < 1)
  /\ gameState' = "Solving"
  /\ UNCHANGED <<user, gameVars, hintVars, isCelebrating, error, showLevelUp,
                 xpGained, account, genPending, xpPending, levelUpTimers,
                 xpIssued, envVars>>

\* onClose of the suspect lineup
closeSolving ==
  /\ InOverlay("solving")
  /\ gameState' = "Playing"
  /\ UNCHANGED <<user, gameVars, hintVars, isCelebrating, error, showLevelUp,
                 xpGained, account, genPending, xpPending, levelUpTimers,
                 xpIssued, envVars>>

\* a suspect button of the lineup
selectOption ==
  /\ InOverlay("solving")
  /\ mystery # NoCase
  /\ \E optionId \in mystery.options : selectedOption' = optionId
  /\ UNCHANGED <<user, gameState, mystery, revealedClues, lockedClues,
                 activePuzzleClueId, selectedDifficulty, hintVars,
                 isCelebrating, error, showLevelUp, xpGained, account,
                 genPending, xpPending, levelUpTimers, xpIssued, envVars>>

\* submitSolution up to the await, given the outcome of its comparison and
\* the number of addXp calls a behaviour may issue
submitSolutionCap(isCorrect, cap) ==
  /\ InOverlay("solving")
  /\ ~(selectedOption = NoOption)
  /\ ~(selectedOption = NoOption \/ mystery = NoCase)
  /\ IF isCorrect
       THEN LET xp == rewardFor(mystery.difficulty) IN
            /\ xpIssued < cap
            /\ gameState' = "Playing"
            /\ isCelebrating' = TRUE
            /\ xpGained' = xp
            /\ xpPending' = BagAdd(xpPending, xp)
            /\ xpIssued' = xpIssued + 1
       ELSE /\ gameState' = "Failure"
            /\ UNCHANGED <<isCelebrating, xpGained, xpPending, xpIssued>>
  /\ UNCHANGED <<user, gameVars, hintVars, error, showLevelUp, account,
                 genPending, levelUpTimers, envVars>>

submitSolutionIf(isCorrect) == submitSolutionCap(isCorrect, MaxXpCalls)

\* a submitSolution that takes every selection for the culprit
submitSolutionAlwaysCorrect == submitSolutionIf(TRUE)

\* a submitSolution without the early return, on a button never disabled:
\* no selection counts as a wrong one
submitSolutionUnguarded ==
  \/ submitSolutionIf(selectedOption = mystery.correctOptionId)
  \/ /\ InOverlay("solving")
     /\ selectedOption = NoOption \/ mystery = NoCase
     /\ gameState' = "Failure"
     /\ UNCHANGED <<user, gameVars, hintVars, error, showLevelUp, account,
                    genPending, levelUpTimers, envVars, isCelebrating,
                    xpGained, xpPending, xpIssued>>

\* the Confirm Indictment button
submitSolution == submitSolutionIf(selectedOption = mystery.correctOptionId)

\* the Confirm Indictment button, where a behaviour may issue two addXp calls
submitSolutionRepeat ==
  submitSolutionCap(selectedOption = mystery.correctOptionId, MaxRepeatXpCalls)

\* submitSolution after the await, try branch
addXpResolved ==
  \E xp \in DOMAIN xpPending :
    /\ xpPending[xp] > 0
    /\ xpPending' = BagRemove(xpPending, xp)
    /\ account' = addXp(account, xp)
    /\ user' = profile(account')
    /\ \E leveledUp \in BOOLEAN :
         levelUpTimers' = IF leveledUp THEN levelUpTimers + 1 ELSE levelUpTimers
    /\ UNCHANGED <<gameState, gameVars, hintVars, isCelebrating, error,
                   showLevelUp, xpGained, genPending, xpIssued, envVars>>

\* a catch branch that treats the failed save like a failed generation
addXpRejectedGoesIdle ==
  \E xp \in DOMAIN xpPending :
    /\ xpPending[xp] > 0
    /\ xpPending' = BagRemove(xpPending, xp)
    /\ error' = ErrGeneration
    /\ gameState' = "Idle"
    /\ isCelebrating' = FALSE
    /\ UNCHANGED <<user, account, levelUpTimers, gameVars, hintVars,
                   showLevelUp, xpGained, genPending, xpIssued, envVars>>

\* submitSolution after the await, catch branch
addXpRejected ==
  \E xp \in DOMAIN xpPending :
    /\ xpPending[xp] > 0
    /\ xpPending' = BagRemove(xpPending, xp)
    /\ UNCHANGED <<user, account, levelUpTimers, gameState, gameVars,
                   hintVars, isCelebrating, error, showLevelUp, xpGained,
                   genPending, xpIssued, envVars>>

\* a callback that shows the notice only if the Success modal is still open
levelUpTimeoutOnlyInSuccess ==
  /\ levelUpTimers > 0
  /\ levelUpTimers' = levelUpTimers - 1
  /\ showLevelUp' = (showLevelUp \/ gameState = "Success")
  /\ UNCHANGED <<user, account, xpPending, xpIssued, xpGained, gameState,
                 gameVars, hintVars, isCelebrating, error, genPending,
                 envVars>>

\* the setTimeout callback armed by submitSolution
levelUpTimeout ==
  /\ levelUpTimers > 0
  /\ levelUpTimers' = levelUpTimers - 1
  /\ showLevelUp' = TRUE
  /\ UNCHANGED <<user, account, xpPending, xpIssued, xpGained, gameState,
                 gameVars, hintVars, isCelebrating, error, genPending,
                 envVars>>

\* onClose and the button of the level-up modal
closeLevelUp ==
  /\ InOverlay("levelUp")
  /\ showLevelUp' = FALSE
  /\ UNCHANGED <<user, account, xpPending, xpIssued, xpGained, gameState,
                 gameVars, hintVars, isCelebrating, error, genPending,
                 levelUpTimers, envVars>>

\* a completion that forgets to open the Success modal
handleCelebrationCompleteNoSuccess ==
  /\ MainView /\ isCelebrating
  /\ isCelebrating' = FALSE
  /\ UNCHANGED <<gameState, gameVars, hintVars, error, xpVars, genPending,
                 envVars>>

\* onComplete of the celebration overlay
handleCelebrationComplete ==
  /\ MainView /\ isCelebrating
  /\ isCelebrating' = FALSE
  /\ gameState' = "Success"
  /\ UNCHANGED <<gameVars, hintVars, error, xpVars, genPending, envVars>>

(* ---------------------------- result modals ---------------------------- *)
\* the Dashboard button of the Success modal
resetGame ==
  /\ InOverlay("success")
  /\ gameState' = "Idle"
  /\ mystery' = NoCase
  /\ UNCHANGED <<revealedClues, lockedClues, activePuzzleClueId,
                 selectedDifficulty, selectedOption, hintVars, isCelebrating,
                 error, xpVars, genPending, envVars>>

\* a re-examine that starts the investigation over
reExamineResets ==
  /\ InOverlay("failure")
  /\ gameState' = "Playing"
  /\ revealedClues' = <<>>
  /\ selectedOption' = NoOption
  /\ hint' = NoText
  /\ UNCHANGED <<mystery, lockedClues, activePuzzleClueId, selectedDifficulty,
                 isHintLoading, hintPending, isCelebrating, error, xpVars,
                 genPending, envVars>>

\* the Re-examine Evidence button and onClose of the Failure modal
reExamine ==
  /\ InOverlay("failure")
  /\ gameState' = "Playing"
  /\ UNCHANGED <<gameVars, hintVars, isCelebrating, error, xpVars, genPending,
                 envVars>>

\* a Reveal Answer button that also grants the reward of the case
revealAnswerGrantsReward ==
  /\ InOverlay("failure")
  /\ mystery # NoCase
  /\ gameState' = "Success"
  /\ xpPending' = BagAdd(xpPending, rewardFor(mystery.difficulty))
  /\ UNCHANGED <<gameVars, hintVars, isCelebrating, error, user, account,
                 levelUpTimers, xpIssued, xpGained, showLevelUp, genPending,
                 envVars>>

\* the I Give Up (Reveal Answer) button of the Failure modal
revealAnswer ==
  /\ InOverlay("failure")
  /\ gameState' = "Success"
  /\ UNCHANGED <<gameVars, hintVars, isCelebrating, error, xpVars, genPending,
                 envVars>>

\* the Back to Dashboard button of the error screen
backToDashboard ==
  /\ ErrorScreen
  /\ gameState' = "Idle"
  /\ UNCHANGED <<gameVars, hintVars, isCelebrating, error, xpVars, genPending,
                 envVars>>

(* ---------------------------- specification ---------------------------- *)
\* what the player does in the game: authentication, case generation,
\* clues, solving and the result modals
Player ==
  \/ handleLogin
  \/ handleLogout
  \/ startGame
  \/ nextCase
  \/ handleClueClick
  \/ handlePuzzleSuccess
  \/ closePuzzle
  \/ solveCase
  \/ closeSolving
  \/ selectOption
  \/ submitSolution
  \/ resetGame
  \/ reExamine
  \/ revealAnswer

\* what happens by itself: the awaited calls settle, the celebration ends
Settled ==
  \/ startGameResolved
  \/ startGameRejected
  \/ addXpResolved
  \/ addXpRejected
  \/ handleCelebrationComplete

Play == Player \/ backToDashboard \/ Settled

\* the hint request and its two outcomes
Hints ==
  \/ fetchHint
  \/ fetchHintResolved
  \/ fetchHintRejected

\* the level-up notice
LevelUp ==
  \/ levelUpTimeout
  \/ closeLevelUp

Next == Play \/ Hints \/ LevelUp

Spec == Init /\ [][Next]_vars

\* The hint handlers write only hint, isHintLoading and hintPending, and the
\* level-up handlers only showLevelUp and levelUpTimers; no handler of Play
\* reads any of the five.  The behaviours of Spec and of SpecPlay therefore
\* visit the same values of every other variable, and a property of those
\* variables is checked under SpecPlay.
SpecPlay == Init /\ [][Play]_vars

\* The game when every overlay shields what lies beneath it: the behaviours
\* that exist whatever the Modal and Celebration components do.  The error
\* screen needs a celebration that outlives its case, which a shielding
\* overlay rules out (ShieldedNoErrorScreen), so backToDashboard is left out.
InitShielded == Init /\ overlaysShield

PlayShielded == Player \/ Settled

SpecShielded == InitShielded /\ [][PlayShielded]_vars

ShieldedNoErrorScreen == ~ErrorScreen

\* The game when the player does nothing while a celebration runs, and the
\* celebration, once started, ends: the Celebration component calls onComplete
\* after its fixed duration.
PlayQuiet ==
  \/ ~isCelebrating /\ handleLogin
  \/ ~isCelebrating /\ handleLogout
  \/ ~isCelebrating /\ startGame
  \/ ~isCelebrating /\ nextCase
  \/ ~isCelebrating /\ handleClueClick
  \/ ~isCelebrating /\ handlePuzzleSuccess
  \/ ~isCelebrating /\ closePuzzle
  \/ ~isCelebrating /\ solveCase
  \/ ~isCelebrating /\ closeSolving
  \/ ~isCelebrating /\ selectOption
  \/ ~isCelebrating /\ submitSolution
  \/ ~isCelebrating /\ resetGame
  \/ ~isCelebrating /\ reExamine
  \/ ~isCelebrating /\ revealAnswer
  \/ Settled

SpecQuiet ==
  Init /\ [][PlayQuiet]_vars /\ WF_vars(handleCelebrationComplete)

\* The game with the level-up notice and without hints; a timer armed by
\* setTimeout is never cleared and fires after its delay.
PlayNotice == Play \/ LevelUp

SpecNotice == Init /\ [][PlayNotice]_vars /\ WF_vars(levelUpTimeout)

\* The game with hints and without the completion of addXp calls and the
\* level-up notice: those write only user, account, the pending calls, the
\* timers and showLevelUp, which no hint handler reads or writes.
PlayHints ==
  \/ Player
  \/ backToDashboard
  \/ startGameResolved
  \/ startGameRejected
  \/ handleCelebrationComplete
  \/ Hints

SpecHints == Init /\ [][PlayHints]_vars

\* The game of a player who stays logged in, with room for a second addXp
\* call.  Without a logout no celebration outlives its case, so the error
\* screen and its button do not occur.
PlayRepeat ==
  \/ handleLogin
  \/ startGame
  \/ nextCase
  \/ handleClueClick
  \/ handlePuzzleSuccess
  \/ closePuzzle
  \/ solveCase
  \/ closeSolving
  \/ selectOption
  \/ submitSolutionRepeat
  \/ resetGame
  \/ reExamine
  \/ revealAnswer
  \/ Settled

SpecRepeat == Init /\ [][PlayRepeat]_vars

TypeOK ==
  /\ gameState \in GameState
  /\ mystery \in MysteryCase \cup {NoCase}
  /\ activePuzzleClueId \in 0..MaxClues
  /\ selectedOption \in OptionIds \cup {NoOption}
  /\ xpGained \in XpAmounts

(* ---------------------------- claims ----------------------------------- *)
NoDuplicates(arr) == \A i, j \in 1..Len(arr) : arr[i] = arr[j] => i = j

\* the reward the specification gives for a difficulty
SpecReward(d) ==
  CASE d = "Easy" -> 50 [] d = "Medium" -> 100 [] d = "Hard" -> 200

\* a step that issues an addXp call with amount xp
IssuesAddXp(xp) == xpPending'[xp] > xpPending[xp]

IssuesNoAddXp == \A xp \in DOMAIN xpPending : ~IssuesAddXp(xp)

\* a step in which the generation requested by Next Case resolves
NextCaseResolved ==
  /\ startGameResolved
  /\ \E d \in Difficulty :
       genPending'[<<d, "nextCase">>] < genPending[<<d, "nextCase">>]

\* C1: in every reachable state no clue id is both revealed and locked.
C1_RevealedLockedDisjoint ==
  Range(revealedClues) \cap Range(lockedClues) = {}

\* C2: when the case requested by Next Case becomes the active case,
\* revealedClues is empty and lockedClues is a lock set computed from the
\* clues of that case.
C2_NextCaseResetsClues ==
  [][NextCaseResolved =>
       /\ gameState' = "Playing"
       /\ revealedClues' = <<>>
       /\ \E draws \in SUBSET lockableIds(mystery') :
            lockedClues' = computeLocks(mystery'.clues, draws)]_vars

\* C3: confirming a selection other than the culprit moves the phase to
\* Failure, issues no addXp call and leaves the profile and xpGained alone.
C3_WrongSelectionFails ==
  [][(submitSolution /\ selectedOption # mystery.correctOptionId) =>
       /\ gameState' = "Failure"
       /\ IssuesNoAddXp
       /\ xpIssued' = xpIssued
       /\ user' = user /\ account' = account
       /\ xpGained' = xpGained]_vars

C3_Witness ==
  /\ gameState = "Failure"
  /\ selectedOption # NoOption
  /\ mystery # NoCase /\ selectedOption # mystery.correctOptionId

\* C4: Reveal Answer moves the phase from Failure to Success, issues no addXp
\* call and leaves the profile alone.
C4_RevealAnswerGrantsNothing ==
  [][revealAnswer =>
       /\ gameState = "Failure" /\ gameState' = "Success"
       /\ IssuesNoAddXp
       /\ xpIssued' = xpIssued
       /\ user' = user /\ account' = account]_vars

\* Success with no addXp call ever issued: reached through Reveal Answer
C4_Witness == gameState = "Success" /\ xpIssued = 0 /\ mystery # NoCase

\* C5: every addXp call carries the reward of the active case's difficulty:
\* 50 for Easy, 100 for Medium, 200 for Hard.
C5_RewardMatchesDifficulty ==
  [][\A xp \in DOMAIN xpPending :
       IssuesAddXp(xp) => mystery # NoCase /\ xp = SpecReward(mystery.difficulty)]_vars

\* an addXp call of a Hard case in flight while the player has asked for Easy
C5_Witness ==
  /\ xpPending[200] > 0
  /\ mystery # NoCase /\ mystery.difficulty = "Hard"
  /\ selectedDifficulty = "Easy"

\* C6: confirming the culprit in Solving moves the phase to Playing with the
\* celebration running; while it runs only a settling generation request
\* changes the phase; its completion moves the phase to Success; and when the
\* player does nothing meanwhile, Success is eventually reached.
C6_CelebrationThenSuccess ==
  /\ [][(submitSolution /\ selectedOption = mystery.correctOptionId) =>
          gameState = "Solving" /\ gameState' = "Playing" /\ isCelebrating']_vars
  /\ [][(isCelebrating /\ isCelebrating' /\ genPending' = genPending) =>
          gameState' = gameState]_vars
  /\ [][handleCelebrationComplete =>
          gameState' = "Success" /\ ~isCelebrating']_vars
  /\ (isCelebrating ~> gameState = "Success")

\* the Success modal of a case whose reward was requested
C6_Witness ==
  /\ gameState = "Success" /\ ~isCelebrating
  /\ xpIssued > 0
  /\ mystery # NoCase /\ selectedOption = mystery.correctOptionId

\* C7: in every reachable state with phase Solving at least one clue is
\* revealed.
C7_SolvingNeedsRevealedClue ==
  gameState = "Solving" => Len(revealedClues) >= 1

C7_Witness == gameState = "Solving" /\ Len(revealedClues) = 1

\* C8: lockedClues holds only ids of Testimony and Physical Object clues of
\* the active case, and it gains ids only when a generated case is installed
\* together with its lock set.
C8_OnlyLockableClueLocked ==
  /\ [](mystery # NoCase =>
          \A id \in Range(lockedClues) :
            /\ id \in clueIds(mystery)
            /\ clueType(mystery, id) \in {"Testimony", "Physical Object"})
  /\ [][Range(lockedClues') \subseteq Range(lockedClues) \/ mystery' # NoCase]_vars

\* a case with an Observation clue, and a lock set that is not empty
C8_Witness ==
  /\ mystery # NoCase
  /\ \E id \in clueIds(mystery) : clueType(mystery, id) = "Observation"
  /\ lockedClues # <<>>

\* C9: a puzzle success for a clue id that is not in lockedClues changes
\* neither lockedClues nor revealedClues.
C9_PuzzleSuccessUnlockedNoOp ==
  [][(handlePuzzleSuccess /\ ~includes(lockedClues, activePuzzleClueId)) =>
       UNCHANGED <<lockedClues, revealedClues>>]_vars

\* C10: asking to reveal a clue that is already revealed leaves revealedClues
\* unchanged, revealedClues never holds an id twice, and it never holds more
\* ids than the active case has clues.
C10_RevealedWithinCase ==
  /\ [](NoDuplicates(revealedClues))
  /\ [](mystery # NoCase => Len(revealedClues) <= Len(mystery.clues))
  /\ [][(handlePuzzleSuccess /\ includes(revealedClues, activePuzzleClueId)) =>
          revealedClues' = revealedClues]_vars

\* C11: while a celebration runs, no action of the player makes the phase
\* Success.
C11_CelebrationNotSkippable ==
  [][(isCelebrating /\ Player) => gameState' # "Success"]_vars

\* every addXp call issued so far has failed
XpFailed == xpIssued > 0 /\ BagSize(xpPending) = 0 /\ account = 0

\* C12: a failing addXp call leaves the displayed profile, the level-up
\* notice, the phase and the celebration as they were; the celebration can
\* complete whether the call is pending or has failed, its completion gives
\* Success, and Success is then reached.
C12_XpFailureKeepsProgress ==
  /\ [][addXpRejected =>
          /\ user' = user /\ account' = account
          /\ levelUpTimers' = levelUpTimers /\ showLevelUp' = showLevelUp
          /\ gameState' = gameState /\ isCelebrating' = isCelebrating
          /\ error' = error]_vars
  /\ []((isCelebrating /\ (BagSize(xpPending) > 0 \/ XpFailed)) =>
          ENABLED handleCelebrationComplete)
  /\ ((isCelebrating /\ (BagSize(xpPending) > 0 \/ XpFailed)) ~>
          gameState = "Success")

\* the Success modal after the only addXp call failed: stale profile, no timer
C12_Witness ==
  /\ gameState = "Success" /\ ~isCelebrating
  /\ XpFailed
  /\ user = profile(0) /\ levelUpTimers = 0 /\ xpGained > 0

\* C13: an addXp call that returns leveledUp arms a level-up timer; an armed
\* timer goes away only by setting showLevelUp, and it eventually does so,
\* whatever the phase becomes meanwhile.
C13_LevelUpNoticeNotDropped ==
  /\ [][levelUpTimers' < levelUpTimers => showLevelUp']_vars
  /\ [][levelUpTimers' > levelUpTimers => addXpResolved]_vars
  /\ (levelUpTimers > 0 ~> showLevelUp)

\* the notice set after the player logged out
C13_Witness ==
  /\ showLevelUp /\ levelUpTimers = 0
  /\ gameState = "Auth" /\ logouts > 0

\* C14: a generation request that fails while the phase is Loading moves the
\* phase to Idle with the error message set and leaves the case and the lock
\* set as they were; the phase is never Error.
C14_GenerationFailureToIdle ==
  /\ [][(startGameRejected /\ gameState = "Loading") =>
          /\ gameState' = "Idle"
          /\ error' = ErrGeneration
          /\ mystery' = mystery /\ lockedClues' = lockedClues]_vars
  /\ [](gameState # "Error")

\* the dashboard after the only generation request failed
C14_Witness ==
  /\ gameState = "Idle" /\ error = ErrGeneration
  /\ mystery = NoCase /\ lockedClues = <<>>
  /\ BagSize(genPending) = 0

\* C15: in every reachable state with phase Playing there is an active case,
\* every id in revealedClues and in lockedClues is the id of one of its clues,
\* and every id in lockedClues is one the lock set of that case can hold.
C15_PlayingCluesOfActiveCase ==
  gameState = "Playing" =>
    /\ mystery # NoCase
    /\ Range(revealedClues) \subseteq clueIds(mystery)
    /\ Range(lockedClues) \subseteq lockableIds(mystery)

\* C16: logout moves the phase to Auth and clears the user and the case, and
\* while the player is logged out only a login changes the phase or the user.
C16_LoggedOutStaysAuth ==
  /\ [][handleLogout =>
          gameState' = "Auth" /\ user' = NoUser /\ mystery' = NoCase]_vars
  /\ [][(gameState = "Auth" /\ user = NoUser /\ ~handleLogin) =>
          gameState' = "Auth" /\ user' = NoUser]_vars

\* C17: issuing a hint request and receiving its result change neither the
\* phase, nor the case, nor revealedClues, nor lockedClues; a failed request
\* sets the hint to the fallback text and leaves the error message alone.
C17_HintLeavesGameAlone ==
  /\ [][(fetchHint \/ fetchHintResolved \/ fetchHintRejected) =>
          UNCHANGED <<gameState, mystery, revealedClues, lockedClues>>]_vars
  /\ [][fetchHintRejected =>
          hint' = HintFallback /\ error' = error /\ gameState' # "Error"]_vars

\* the board showing the fallback text after a failed hint request
C17_Witness ==
  /\ hint = HintFallback /\ ~isHintLoading
  /\ gameState = "Playing" /\ mystery # NoCase /\ error = NoText

\* C18: while there is an active case the selected suspect is none or one of
\* its options, and when another case becomes the active case no suspect is
\* selected, so that no selection made for one case is there to be confirmed
\* against another.
C18_SelectionOfActiveCase ==
  /\ [](mystery # NoCase =>
          selectedOption = NoOption \/ selectedOption \in mystery.options)
  /\ [][(mystery' # NoCase /\ mystery' # mystery) =>
          selectedOption' = NoOption]_vars

\* C19: in every reachable state with phase Idle there is no active case.
C19_IdleHasNoCase ==
  gameState = "Idle" => mystery = NoCase

\* C20: the missing-credential error, set at start-up when the credential is
\* missing, stays set for the whole session (starting a game does not clear
\* it), and while it is set every phase other than Idle and Auth shows the
\* blocking error screen.
C20_ConfigurationErrorStays ==
  /\ [][error = ErrMissingKey => error' = ErrMissingKey]_vars
  /\ [](error = ErrMissingKey =>
          gameState \in {"Idle", "Auth"} \/ ErrorScreen)

\* of the equiprobable values of Math.random(), those that lock a clue
Hits(d) == { r \in Rolls : r < chance(d) }

\* the clues locked by one value of Math.random() per clue, n eligible clues
LockedBy(v, d) == { i \in DOMAIN v : v[i] \in Hits(d) }

\* the sum of the lock-set sizes over all outcomes for six eligible clues of
\* a Hard request: each clue counts once for every outcome that locks it
HardSizeSum ==
  LET outcomes == [1..6 -> Rolls]
      locking(i) == Cardinality({ v \in outcomes : i \in LockedBy(v, "Hard") })
  IN locking(1) + locking(2) + locking(3) + locking(4) + locking(5) + locking(6)

\* an eligible clue is locked in 6 of 10 outcomes for Hard, 4 of 10 otherwise
LockChanceExact ==
  \A d \in Difficulty :
    10 * Cardinality(Hits(d)) =
      (IF d = "Hard" THEN 6 ELSE 4) * Cardinality(Rolls)

\* two eligible clues: every lock set has the product of the single chances
LocksIndependent ==
  \A d \in Difficulty : \A S \in SUBSET (1..2) :
    Cardinality({ v \in [1..2 -> Rolls] : LockedBy(v, d) = S }) =
      (IF 1 \in S THEN Cardinality(Hits(d)) ELSE Cardinality(Rolls \ Hits(d)))
      * (IF 2 \in S THEN Cardinality(Hits(d)) ELSE Cardinality(Rolls \ Hits(d)))

\* six eligible clues, Hard: the mean lock-set size is 3.6
HardMeanSize == 10 * HardSizeSum = 36 * Cardinality([1..6 -> Rolls])

C22_RewardRequestedOnce ==
  [][(\E xp \in DOMAIN xpPending : IssuesAddXp(xp)) => ~isCelebrating]_vars

\* C23: in every reachable state whose phase is not Auth a user is
\* authenticated.
C23_UserOutsideAuth ==
  gameState # "Auth" => user # NoUser

\* C24: a generation request that completes while the phase is not Loading
\* changes neither the phase, nor the active case, nor lockedClues.
C24_CompletionOnlyInLoading ==
  [][((startGameResolved \/ startGameRejected) /\ gameState # "Loading") =>
       UNCHANGED <<gameState, mystery, lockedClues>>]_vars

\* C25: in every reachable state whose phase is Playing, Solving, Success or
\* Failure there is an active case.
C25_CasePhasesHaveCase ==
  gameState \in {"Playing", "Solving", "Success", "Failure"} => mystery # NoCase

\* C26: clicking a locked clue only opens its puzzle; a locked clue enters
\* revealedClues only by the success of its own puzzle; no clue of the lock
\* set installed with a case is revealed already, without a puzzle of that
\* case; and clicking a clue that is neither locked nor revealed appends it
\* to revealedClues.
C26_LockedClueNeedsPuzzle ==
  /\ [][(handleClueClick /\ activePuzzleClueId' # activePuzzleClueId) =>
          /\ activePuzzleClueId' \in Range(lockedClues)
          /\ UNCHANGED <<revealedClues, lockedClues>>]_vars
  /\ [][\A id \in Range(lockedClues) :
          (id \in Range(revealedClues') /\ id \notin Range(revealedClues)) =>
            handlePuzzleSuccess /\ activePuzzleClueId = id]_vars
  /\ [][startGameResolved =>
          Range(lockedClues') \cap Range(revealedClues') = {}]_vars
  /\ [][(handleClueClick /\ activePuzzleClueId' = activePuzzleClueId) =>
          /\ lockedClues' = lockedClues
          /\ \E id \in clueIds(mystery) \ Range(lockedClues) :
               /\ id \notin Range(revealedClues)
               /\ revealedClues' = Append(revealedClues, id)]_vars

\* C27: when Reveal Answer moves the phase from Failure to Success, the reward
\* shown on the Success screen (xpGained) is zero.
C27_RevealAnswerShowsNoReward ==
  [][revealAnswer => xpGained' = 0]_vars

\* C28: re-examine moves the phase from Failure to Playing and leaves the
\* active case, revealedClues, lockedClues, the selected suspect and the hint
\* unchanged.
C28_ReExamineKeepsState ==
  [][reExamine =>
       /\ gameState = "Failure" /\ gameState' = "Playing"
       /\ UNCHANGED <<mystery, revealedClues, lockedClues, selectedOption,
                      hint>>]_vars

\* back on the board with the wrong suspect still selected, the clue still
\* revealed and the hint still shown
C28_Witness ==
  /\ gameState = "Playing" /\ mystery # NoCase
  /\ selectedOption # NoOption /\ selectedOption # mystery.correctOptionId
  /\ revealedClues # <<>> /\ hint = HintText
  /\ xpIssued = 0

\* C29: a hint request that completes while a new case is being loaded, after
\* startGame has cleared the hint, is a request of an earlier case and does
\* not set the hint.
C29_StaleHintIgnored ==
  [][((fetchHintResolved \/ fetchHintRejected) /\ gameState = "Loading") =>
       hint' = hint]_vars

\* C30: while the lineup is open with no suspect selected or no active case,
\* a confirmation does nothing: no step leads to Failure, starts a
\* celebration, changes xpGained or issues an addXp call, and the profile
\* changes only by the completion of an earlier addXp call.
C30_ConfirmWithoutSelectionNoOp ==
  [][(gameState = "Solving" /\ (selectedOption = NoOption \/ mystery = NoCase)) =>
       /\ gameState' # "Failure"
       /\ ~(isCelebrating' /\ ~isCelebrating)
       /\ xpGained' = xpGained
       /\ IssuesNoAddXp /\ xpIssued' = xpIssued
       /\ (user' # user => addXpResolved \/ handleLogout)]_vars

\* the lineup open with no suspect selected
C30_Witness ==
  /\ gameState = "Solving" /\ mystery # NoCase
  /\ selectedOption = NoOption /\ ~isCelebrating

====
